---- MODULE Spec2Model ----
(***************************************************************************)
(* Baby growth tracker (src/src/weight.py): the process-wide DataFrame df, *)
(* its CSV snapshot in the blob container, the tables held by the browser  *)
(* sessions, and the single Dash callback update_data_and_chart.           *)
(*                                                                         *)
(* Encodings.  A date string 'YYYY-MM-DD' is the tuple <<y, m, d>>; a date *)
(* followed by the time 00:00:00 is <<y, m, d, sep>>, sep the character    *)
(* between the two: "T" in the ISO string Dash puts on the wire for a      *)
(* Timestamp, " " in str(Timestamp); a missing (None or empty, both falsy) *)
(* string is <<>>.  A parsed datetime / Timestamp is a record [year,       *)
(* month, day] (all are at midnight); a Date cell that still holds a       *)
(* string s is the record [text |-> s]; a Date cell that is NaT or None is *)
(* [null |-> TRUE].  A numeric cell is <<n>>, or <<>> for NaN / None, as   *)
(* is the value of the weight input; Age_Days counts days, Weight_kg       *)
(* tenths of a kilogram (<<42>> is 4.2 kg).  A number in CSV text is       *)
(* <<whole>> ("14"), <<whole, tenths>> ("14.0", "4.2") or <<>> (an empty   *)
(* field).  A row is a record with one field for each column of its frame. *)
(***************************************************************************)
EXTENDS Integers, Sequences, FiniteSets, TLC

\* The longest store (and table) the model lets an add build.
MaxRecords == 2

\* How many requests of one run the container may fail with a storage fault.
MaxFaults == 1

\* How many calls of the callback two concurrent sessions make in one run.
MaxCalls == 2

VARIABLES
    pc,        \* "start" before the module-level load, "serving" after it
    df,        \* the global DataFrame: [columns, rows]
    blob,      \* the container's baby_growth_data.csv: Missing or CSV text
    curves,    \* [days, percentiles]: the WHO reference curves
    pandas,    \* the major version of the pandas the process imported
    layout,    \* the rows app.layout gives the data-table of a loaded page
    table,     \* per browser session: the data-table's rows (wire form)
    req,       \* per browser session: its call of the callback, if one is
               \* waiting in upload_blob
    ev,        \* the arguments of the call the last step belonged to
    out,       \* what that step produced: a response, a raised exception,
               \* or "pending" while the call waits in upload_blob
    hist       \* history: the records whose add was acknowledged, whether a
               \* row was ever deleted or edited, whether a call ever raised,
               \* the storage faults the run may still see, and (when the
               \* run is bounded) the calls it may still begin

vars == <<pc, df, blob, curves, pandas, layout, table, req, ev, out, hist>>

----------------------------------------------------------------------------
(* Small helpers *)

Reverse(s) == [i \in 1..Len(s) |-> s[Len(s) + 1 - i]]

RemoveAt(s, i) == [j \in 1..(Len(s) - 1) |-> IF j < i THEN s[j] ELSE s[j + 1]]

Contains(s, x) == \E i \in 1..Len(s) : s[i] = x

ToSet(s) == {s[i] : i \in 1..Len(s)}

IndexOf(s, x) == CHOOSE i \in 1..Len(s) : s[i] = x

----------------------------------------------------------------------------
(* Dates: datetime.strptime(.., '%Y-%m-%d'), pd.to_datetime, and the day   *)
(* difference (a - b).days, computed through proleptic ordinals as         *)
(* datetime does.                                                          *)

IsLeap(y) == (y % 4 = 0) /\ ((y % 100 # 0) \/ (y % 400 = 0))

DaysInMonth(y, m) ==
    IF m = 2 THEN (IF IsLeap(y) THEN 29 ELSE 28)
    ELSE IF m \in {4, 6, 9, 11} THEN 30 ELSE 31

RECURSIVE DaysBeforeMonth(_, _)
DaysBeforeMonth(y, m) ==
    IF m <= 1 THEN 0 ELSE DaysBeforeMonth(y, m - 1) + DaysInMonth(y, m - 1)

DaysBeforeYear(y) ==
    ((y - 1) * 365) + ((y - 1) \div 4) - ((y - 1) \div 100) + ((y - 1) \div 400)

ToOrdinal(dt) ==
    DaysBeforeYear(dt.year) + DaysBeforeMonth(dt.year, dt.month) + dt.day

ValidYMD(y, m, d) == m \in 1..12 /\ d >= 1 /\ d <= DaysInMonth(y, m)

strptime(s) == [year |-> s[1], month |-> s[2], day |-> s[3]]

\* (a - b).days
DaysBetween(a, b) == ToOrdinal(a) - ToOrdinal(b)
\* A Date cell that holds a string, and the test for one.
Str(s) == [text |-> s]

IsStr(x) == "text" \in DOMAIN x

\* A Date cell that is NaT or None.
Null == [null |-> TRUE]

IsNull(x) == "null" \in DOMAIN x

\* Whether pd.to_datetime parses the string: a date, or a date with a time.
ToDatetimeOk(s) ==
    /\ Len(s) \in {3, 4}
    /\ ValidYMD(s[1], s[2], s[3])
    /\ (Len(s) = 4 => s[4] \in {"T", " "})

\* pd.to_datetime of one string; the stored Timestamps are all at midnight.
to_datetime(s) == [year |-> s[1], month |-> s[2], day |-> s[3]]

\* The format pandas >= 2.0 guesses from a string.
guess_datetime_format(s) ==
    IF Len(s) = 3 THEN "%Y-%m-%d"
    ELSE IF s[4] = "T" THEN "%Y-%m-%dT%H:%M:%S"
    ELSE "%Y-%m-%d %H:%M:%S"

\* pd.to_datetime of a column.  A Timestamp and a null are kept.  pandas 1.x
\* parses each string on its own; pandas >= 2.0 guesses a format when the
\* first cell that is not null is a string, and raises on a string of
\* another format.
ToDatetimeColumnOk(col, major) ==
    /\ \A i \in 1..Len(col) : IsStr(col[i]) => ToDatetimeOk(col[i].text)
    /\ major >= 2 =>
          \A i, j \in 1..Len(col) :
              (/\ IsStr(col[i])
               /\ \A k \in 1..(i - 1) : IsNull(col[k])
               /\ IsStr(col[j])) =>
                  guess_datetime_format(col[j].text)
                      = guess_datetime_format(col[i].text)

\* The parsed column.
ToDatetimeColumn(col) ==
    [i \in 1..Len(col) |->
        IF IsStr(col[i]) THEN to_datetime(col[i].text) ELSE col[i]]

\* The ISO text Dash's JSON encoder writes for a Timestamp.
IsoFormat(dt) == Str(<<dt.year, dt.month, dt.day, "T">>)

\* to_csv with the day written before the month.
CsvDateDayFirst(x, datetime64) ==
    IF IsNull(x) THEN <<>>
    ELSE IF IsStr(x) THEN x.text
    ELSE <<x.year, x.day, x.month>>

\* The text to_csv writes for a Date cell: nothing for a null; a string as it
\* is; a Timestamp as the date alone in a datetime64 column (all at
\* midnight), as str(Timestamp) in an object column.
CsvDate(x, datetime64) ==
    IF IsNull(x) THEN <<>>
    ELSE IF IsStr(x) THEN x.text
    ELSE IF datetime64 THEN <<x.year, x.month, x.day>>
    ELSE <<x.year, x.month, x.day, " ">>

----------------------------------------------------------------------------
(* Numbers *)

NaN == <<>>

\* The units of a column's cells in one whole of its CSV text.
Scale(c) == IF c = "Weight_kg" THEN 10 ELSE 1

\* A numeric column is float64 when a cell is NaN or not a whole number, and
\* int64 otherwise.
IsFloat64(col, scale) ==
    \E i \in 1..Len(col) : col[i] = NaN \/ col[i][1] % scale # 0

\* The text to_csv writes for a numeric cell.
FormatNumber(x, scale, float64) ==
    IF x = NaN THEN <<>>
    ELSE IF float64 THEN <<x[1] \div scale, ((x[1] % scale) * 10) \div scale>>
    ELSE <<x[1] \div scale>>

\* The number pd.read_csv reads from the text.
ParseNumber(t, scale) ==
    IF t = <<>> THEN NaN
    ELSE IF Len(t) = 1 THEN <<t[1] * scale>>
    ELSE <<(t[1] * scale) + ((t[2] * scale) \div 10)>>

----------------------------------------------------------------------------
(* DataFrames: [columns, rows].  The index is always 0 .. n-1.             *)

Columns == <<"Date", "Age_Days", "Weight_kg">>

\* pd.DataFrame(columns=['Date', 'Age_Days', 'Weight_kg'])
EmptyDF == [columns |-> Columns, rows |-> <<>>]

\* pd.DataFrame([]): no rows and no columns.
NoColumnsDF == [columns |-> <<>>, rows |-> <<>>]

\* pd.DataFrame(table_data): the columns are the keys of the rows.
DataFrame(table_data) ==
    IF table_data = <<>> THEN NoColumnsDF
    ELSE [columns |-> SelectSeq(Columns,
                                LAMBDA c : c \in DOMAIN table_data[1]),
          rows    |-> table_data]

HasColumn(d, c) == Contains(d.columns, c)

\* df[c]
Column(d, c) == [i \in 1..Len(d.rows) |-> d.rows[i][c]]

\* The cell of a column a row does not have.
NA(c) == IF c = "Date" THEN Null ELSE NaN

\* A row under the given columns.
Reindexed(r, cols) ==
    [c \in ToSet(cols) |-> IF c \in DOMAIN r THEN r[c] ELSE NA(c)]

\* Line 121, right-hand side: pd.to_datetime(df['Date']) finds the column
\* and parses it.
DateColumnOk(d, major) ==
    /\ HasColumn(d, "Date")
    /\ ToDatetimeColumnOk(Column(d, "Date"), major)

\* Line 121, the assignment df['Date'] = col: the column is aligned on the
\* frame's index (a row past the column's end gets NaT, a cell past the
\* frame's end is dropped); a frame without rows takes the column's index.
SetDate(d, col) ==
    IF Len(d.rows) = 0
    THEN LET cols == IF HasColumn(d, "Date") THEN d.columns
                     ELSE d.columns \o <<"Date">>
         IN  [columns |-> cols,
              rows    |-> [i \in 1..Len(col) |->
                              Reindexed([Date |-> col[i]], cols)]]
    ELSE [columns |-> IF HasColumn(d, "Date") THEN d.columns
                      ELSE d.columns \o <<"Date">>,
          rows    |-> [i \in 1..Len(d.rows) |->
                          [c \in DOMAIN d.rows[i] \cup {"Date"} |->
                              IF c # "Date" THEN d.rows[i][c]
                              ELSE IF i <= Len(col) THEN col[i]
                              ELSE Null]]]

\* df['Date'] = pd.to_datetime(df['Date']) on one frame.
ParseDateColumn(d) == SetDate(d, ToDatetimeColumn(Column(d, "Date")))

\* pd.concat([df, new_record], ignore_index=True): the union of the columns,
\* the rows of df followed by the rows of new_record, NaN / NaT where a row
\* lacks a column.
concat(d, new_record) ==
    LET cols == d.columns \o SelectSeq(new_record.columns,
                                       LAMBDA c : ~Contains(d.columns, c))
        rows == d.rows \o new_record.rows
    IN  [columns |-> cols,
         rows    |-> [i \in 1..Len(rows) |-> Reindexed(rows[i], cols)]]

\* df.to_dict('records')
to_dict_records(d) == d.rows

\* What the browser receives for those records: a Timestamp as ISO text,
\* NaT and NaN as null.
JsonRows(records) ==
    [i \in 1..Len(records) |->
        [c \in DOMAIN records[i] |->
            IF c = "Date" /\ ~IsStr(records[i][c]) /\ ~IsNull(records[i][c])
            THEN IsoFormat(records[i][c])
            ELSE records[i][c]]]

\* df.empty
IsEmpty(d) == Len(d.rows) = 0 \/ Len(d.columns) = 0

----------------------------------------------------------------------------
(* CSV text and the blob container *)

Missing == [kind |-> "missing", header |-> <<>>, lines |-> <<>>]

\* The Date column's dtype is datetime64 when no cell holds a string.
IsDatetime64(d) == \A i \in 1..Len(d.rows) : ~IsStr(d.rows[i].Date)

\* df.to_csv(output, index=False)
to_csv(d) ==
    [kind   |-> "text",
     header |-> d.columns,
     lines  |-> [i \in 1..Len(d.rows) |->
                    [k \in 1..Len(d.columns) |->
                        LET c == d.columns[k]
                        IN  IF c = "Date"
                            THEN CsvDate(d.rows[i][c], IsDatetime64(d))
                            ELSE FormatNumber(d.rows[i][c], Scale(c),
                                     IsFloat64(Column(d, c), Scale(c)))]]]

\* pd.read_csv accepts the text: a blob that exists and is not empty.
ReadCsvOk(b) == b.kind = "text" /\ b.header # <<>>

\* pd.read_csv(io.StringIO(text)): Date is still a string, an empty field is
\* NaN.  A text without the Date column keeps what it has under the header
\* it has.
read_csv_from_blob(b) ==
    [columns |-> b.header,
     rows    |-> [i \in 1..Len(b.lines) |->
                    [c \in ToSet(b.header) |->
                        LET t == b.lines[i][IndexOf(b.header, c)]
                        IN  IF c # "Date" THEN ParseNumber(t, Scale(c))
                            ELSE IF t = <<>> THEN Null
                            ELSE Str(t)]]]

\* Lines 40-44: the try succeeds when the read and the Date parse do.
LoadOk(b, major) ==
    ReadCsvOk(b) /\ DateColumnOk(read_csv_from_blob(b), major)

\* The fallback built as pd.DataFrame(), without the columns.
LoadFallbackNoColumns == NoColumnsDF

\* Line 44: df = pd.DataFrame(columns=['Date', 'Age_Days', 'Weight_kg'])
LoadFallback == EmptyDF

load(b, major) ==
    IF LoadOk(b, major) THEN ParseDateColumn(read_csv_from_blob(b))
    ELSE LoadFallback

\* Lines 30-33: the CSV text handed to upload_blob.
write_csv_to_blob(d) == to_csv(d)

----------------------------------------------------------------------------
(* The WHO reference table (tab_wfa_girls_p_0_13.csv, ';' separated, comma *)
(* decimals): an excerpt of its first rows.                                *)

who_data ==
    << [Week |-> 0, P5 |-> <<2, 5>>, P10 |-> <<2, 7>>, P50 |-> <<3, 2>>,
        P90 |-> <<3, 9>>, P95 |-> <<4, 0>>],
       [Week |-> 1, P5 |-> <<2, 6>>, P10 |-> <<2, 8>>, P50 |-> <<3, 3>>,
        P90 |-> <<4, 0>>, P95 |-> <<4, 2>>] >>

\* pd.to_numeric(col.str.replace(',', '.'), errors='coerce')
to_numeric(t) == (t[1] * 10) + t[2]

percentiles ==
    [p5  |-> [i \in 1..Len(who_data) |-> to_numeric(who_data[i].P5)],
     p10 |-> [i \in 1..Len(who_data) |-> to_numeric(who_data[i].P10)],
     p50 |-> [i \in 1..Len(who_data) |-> to_numeric(who_data[i].P50)],
     p90 |-> [i \in 1..Len(who_data) |-> to_numeric(who_data[i].P90)],
     p95 |-> [i \in 1..Len(who_data) |-> to_numeric(who_data[i].P95)]]

days == [i \in 1..Len(who_data) |-> who_data[i].Week * 7]

----------------------------------------------------------------------------
(* update_chart: the figure's traces, in the order they are added *)

Band(xs, upper, lower) ==
    [kind |-> "band", name |-> "",
     x |-> xs \o Reverse(xs), y |-> upper \o Reverse(lower)]

Line(label, xs, ys) ==
    [kind |-> "lines", name |-> label, x |-> xs, y |-> ys]

\* for percentile, weights in percentiles.items(): dict insertion order
PercentileLines(c) ==
    << Line("5th Percentile",  c.days, c.percentiles.p5),
       Line("10th Percentile", c.days, c.percentiles.p10),
       Line("50th Percentile", c.days, c.percentiles.p50),
       Line("90th Percentile", c.days, c.percentiles.p90),
       Line("95th Percentile", c.days, c.percentiles.p95) >>

\* if not df.empty
AlwaysPlotsRecords(d) == TRUE

\* Line 165: if not df.empty
PlotsRecords(d) == ~IsEmpty(d)

\* Lines 166-173: the trace of the records, x=df['Age_Days'] and
\* y=df['Weight_kg'].
GrowthTrace(xs, ys) ==
    [kind |-> "lines+markers", name |-> "Baby's Growth", x |-> xs, y |-> ys]

\* Lines 131-163: the traces that do not depend on df.
ReferenceTraces(c) ==
    << Band(c.days, c.percentiles.p95, c.percentiles.p5),
       Band(c.days, c.percentiles.p90, c.percentiles.p10) >>
    \o PercentileLines(c)

\* update_chart() when df names one frame throughout.
update_chart(d, c) ==
    ReferenceTraces(c)
    \o (IF PlotsRecords(d)
        THEN <<GrowthTrace(Column(d, "Age_Days"), Column(d, "Weight_kg"))>>
        ELSE <<>>)

----------------------------------------------------------------------------
(* update_data_and_chart *)

MsgAdded == "Record added successfully!"
MsgSaved == "Changes saved successfully!"
MsgNoChange == "No changes made."

\* Line 110, with a truthiness test of the weight in place of "is not None".
AddGuardTruthy(trigger, dob, date, weight) ==
    trigger = "add-button" /\ dob # <<>> /\ date # <<>>
        /\ weight # <<>> /\ weight # <<0>>

\* Line 110: trigger_id == 'add-button' and dob and date and weight is not None
AddGuard(trigger, dob, date, weight) ==
    trigger = "add-button" /\ dob # <<>> /\ date # <<>> /\ weight # <<>>

\* Line 119 with the add button taken for a save as well.
ReplaceGuardAnyButton(trigger) == trigger # ""

\* Line 119: trigger_id == 'save-button' or trigger_id == 'data-table'
ReplaceGuard(trigger) == trigger = "save-button" \/ trigger = "data-table"

\* Lines 111-115: the one-row frame of the new record.
new_record(dob, date, weight) ==
    [columns |-> Columns,
     rows    |-> << [Date      |-> strptime(date),
                     Age_Days  |-> <<DaysBetween(strptime(date),
                                                 strptime(dob))>>,
                     Weight_kg |-> weight] >>]

\* Line 120 keeping the rows of the store that the table does not hold.
ReplacedMerging(d, table_data) ==
    LET t == DataFrame(table_data)
        kept == SelectSeq(JsonRows(d.rows),
                          LAMBDA r : ~Contains(table_data, r))
    IN  IF t.columns = <<>> THEN t ELSE [t EXCEPT !.rows = kept \o t.rows]

\* Line 120: df = pd.DataFrame(table_data)
Replaced(d, table_data) == DataFrame(table_data)

\* The global after a write that raised, had the assignment been undone.
RolledBack(before, current) == before

\* Lines 116-117 and 120-122: the global is assigned before the write, and
\* nothing restores it when the write raises.
StoreAfterFault(before, current) == current

\* The figure and rows built from the store as it was when the call began.
StoreBeforeBranch(before, current) == before

\* Lines 127-128 and 165-168 read the global df as it is when they run.
StoreForResponse(before, current) == current

\* Line 128: return message, fig, df.to_dict('records')
Response(branch, message, fig, data, uploads) ==
    [status |-> "ok", exc |-> "", branch |-> branch, message |-> message,
     fig |-> fig, data |-> data, uploads |-> uploads]

\* An exception leaves the callback: nothing is returned.
Raised(branch, exc, uploads) ==
    [status |-> "raised", exc |-> exc, branch |-> branch, message |-> "",
     fig |-> <<>>, data |-> <<>>, uploads |-> uploads]

\* The call has not returned yet.
Pending(branch) ==
    [status |-> "pending", exc |-> "", branch |-> branch, message |-> "",
     fig |-> <<>>, data |-> <<>>, uploads |-> 0]

\* Line 34: upload_blob(..., overwrite=True) replaces the blob's whole text,
\* or raises and leaves it.
upload_blob(b, text, fault) == IF fault THEN b ELSE text

\* Lines 118, 123, 125: the message of the branch.
Message(branch) ==
    IF branch = "add" THEN MsgAdded
    ELSE IF branch = "replace" THEN MsgSaved
    ELSE MsgNoChange

----------------------------------------------------------------------------
(* Inputs *)

\* The date pickers' values: none, or a date.  The layout's defaults are the
\* day the page is served and fourteen days before it.
DefaultDob == <<2024, 1, 1>>
DefaultDate == <<2024, 1, 15>>
OtherDate == <<2024, 3, 1>>

\* The (dob, date, weight) values of the form when Add Record is pressed: two
\* complete forms, and one with each of the three fields missing.
AddInputs ==
    { <<DefaultDob, DefaultDate, <<42>>>>,
      <<DefaultDob, OtherDate, <<0>>>>,
      <<<<>>, DefaultDate, <<42>>>>,
      <<DefaultDob, <<>>, <<42>>>>,
      <<DefaultDob, DefaultDate, <<>>>> }

\* The dates a user types into the table's Date column.
EditDates == {OtherDate}

\* What the container may hold when the process starts.
StoredRow == <<<<2024, 1, 15>>, <<14>>, <<4, 2>>>>
InitialBlobs ==
    { Missing,
      [kind |-> "text", header |-> <<>>, lines |-> <<>>],
      [kind |-> "text", header |-> <<"Age_Days", "Weight_kg">>, lines |-> <<>>],
      [kind |-> "text", header |-> Columns,
       lines |-> << <<<<2024, 13, 45>>, <<14>>, <<4, 2>>>> >>],
      [kind |-> "text", header |-> Columns, lines |-> <<>>],
      [kind |-> "text", header |-> Columns, lines |-> <<StoredRow>>] }

\* The pandas the process may run on: a 1.x or a 2.x release.
PandasMajors == {1, 2}

NoEvent ==
    [session |-> 0, trigger |-> "", table_data |-> <<>>,
     dob |-> <<>>, date |-> <<>>, weight |-> <<>>, kind |-> "none"]

NoOutput == Raised("none", "", 0)

\* A session with no call of the callback in progress.  at is the statement
\* the call runs next; before is the global df as the call found it; the
\* others are the call's locals: built the frame pd.concat returned, col the
\* parsed Date column, payload the CSV text handed to upload_blob, x the
\* column update_chart has read, fig the figure.
IdleReq ==
    [at |-> "idle", ev |-> NoEvent, branch |-> "none", before |-> NoColumnsDF,
     built |-> NoColumnsDF, col |-> <<>>, payload |-> Missing, x |-> <<>>,
     fig |-> <<>>, uploads |-> 0]

----------------------------------------------------------------------------
(* Start-up and the callback.  Flask serves each request on a thread of    *)
(* its own, and the interpreter may switch threads between any two         *)
(* accesses of the global df, so a call of the callback is a sequence of   *)
(* steps, one for each read or assignment of the global df and one for the *)
(* wait on the container, and the calls of different sessions interleave.  *)
(* A session has one call in progress at a time.                           *)

InitWith(S, faults, bounded, calls) ==
    /\ pc = "start"
    /\ df = NoColumnsDF
    /\ blob \in InitialBlobs
    /\ curves = [days |-> <<>>, percentiles |-> <<>>]
    /\ pandas \in PandasMajors
    /\ layout = <<>>
    /\ table = [s \in S |-> <<>>]
    /\ req = [s \in S |-> IdleReq]
    /\ ev = NoEvent
    /\ out = NoOutput
    /\ hist = [acked |-> {}, edited |-> FALSE, raised |-> FALSE,
               budget |-> faults, bounded |-> bounded, calls |-> calls]

\* One browser session making any number of calls; the container may fail.
Init == InitWith({1}, MaxFaults, FALSE, 0)

\* Two browser sessions on the one process, making MaxCalls calls between
\* them; the container does not fail.
InitShared == InitWith({1, 2}, 0, TRUE, MaxCalls)

\* Lines 40-57 and the layout's data=df.to_dict('records') on line 86,
\* evaluated once.
Load ==
    /\ pc = "start"
    /\ pc' = "serving"
    /\ df' = load(blob, pandas)
    /\ curves' = [days |-> days, percentiles |-> percentiles]
    /\ layout' = JsonRows(to_dict_records(df'))
    /\ table' = [s \in DOMAIN table |-> layout']
    /\ UNCHANGED <<blob, pandas, req, ev, out, hist>>

\* The step of session s's call that ends it with an exception.
Raise(s, exc) ==
    /\ req' = [req EXCEPT ![s] = IdleReq]
    /\ out' = Raised(req[s].branch, exc, req[s].uploads)
    /\ hist' = [hist EXCEPT !.raised = TRUE]

\* A step of session s's call after which the call goes on.
Continue(s) ==
    /\ out' = Pending(req[s].branch)
    /\ hist' = hist

\* Lines 105-116, 119-120, 124-125: the callback is called for session s and
\* takes its branch.  The add branch reads the global df and builds the
\* longer frame; the replace branch assigns the global df; otherwise the
\* call goes on to line 127.
update_data_and_chart(s, kind, trigger, table_data, dob, date, weight) ==
    /\ pc = "serving"
    /\ req[s].at = "idle"
    /\ hist.bounded => hist.calls > 0
    /\ LET e == [session |-> s, trigger |-> trigger, table_data |-> table_data,
                 dob |-> dob, date |-> date, weight |-> weight, kind |-> kind]
           r == [IdleReq EXCEPT !.ev = e, !.before = df]
       IN  /\ ev' = e
           /\ IF AddGuard(trigger, dob, date, weight)
              THEN /\ req' = [req EXCEPT ![s] =
                                [r EXCEPT !.at = "assign", !.branch = "add",
                                          !.built = concat(df,
                                              new_record(dob, date, weight))]]
                   /\ df' = df
                   /\ out' = Pending("add")
              ELSE IF ReplaceGuard(trigger)
              THEN /\ req' = [req EXCEPT ![s] =
                                [r EXCEPT !.at = "parse", !.branch = "replace"]]
                   /\ df' = Replaced(df, table_data)
                   /\ out' = Pending("replace")
              ELSE /\ req' = [req EXCEPT ![s] =
                                [r EXCEPT !.at = "chart", !.branch = "noop"]]
                   /\ df' = df
                   /\ out' = Pending("noop")
    /\ table' = [table EXCEPT ![s] = table_data]
    /\ hist' = [hist EXCEPT !.edited = @ \/ kind \in {"delete", "edit"},
                            !.calls = IF hist.bounded THEN @ - 1 ELSE @]
    /\ UNCHANGED <<pc, blob, curves, pandas, layout>>

\* Line 116, the assignment: df = <the frame pd.concat returned>.
Assign(s) ==
    /\ pc = "serving"
    /\ req[s].at = "assign"
    /\ df' = req[s].built
    /\ req' = [req EXCEPT ![s].at = "write"]
    /\ ev' = req[s].ev
    /\ Continue(s)
    /\ UNCHANGED <<pc, blob, curves, pandas, layout, table>>

\* Line 121, right-hand side: pd.to_datetime(df['Date']) on the frame the
\* global names now.
ParseDate(s) ==
    /\ pc = "serving"
    /\ req[s].at = "parse"
    /\ ev' = req[s].ev
    /\ IF DateColumnOk(df, pandas)
       THEN /\ req' = [req EXCEPT ![s].at = "setitem",
                                  ![s].col = ToDatetimeColumn(
                                                 Column(df, "Date"))]
            /\ Continue(s)
       ELSE Raise(s, IF HasColumn(df, "Date") THEN "ValueError"
                     ELSE "KeyError")
    /\ UNCHANGED <<pc, df, blob, curves, pandas, layout, table>>

\* Line 121, the assignment: df['Date'] = <the parsed column>, into the frame
\* the global names now.
SetItem(s) ==
    /\ pc = "serving"
    /\ req[s].at = "setitem"
    /\ df' = SetDate(df, req[s].col)
    /\ req' = [req EXCEPT ![s].at = "write"]
    /\ ev' = req[s].ev
    /\ Continue(s)
    /\ UNCHANGED <<pc, blob, curves, pandas, layout, table>>

\* Lines 117 / 122 and 30-33: write_csv_to_blob is passed the frame the
\* global names now and turns it into CSV text.
WriteCsv(s) ==
    /\ pc = "serving"
    /\ req[s].at = "write"
    /\ req' = [req EXCEPT ![s].at = "upload",
                          ![s].payload = write_csv_to_blob(df)]
    /\ ev' = req[s].ev
    /\ Continue(s)
    /\ UNCHANGED <<pc, df, blob, curves, pandas, layout, table>>

\* Line 34: upload_blob returns, or raises (fault) and the exception leaves
\* the callback.
Upload(s, fault) ==
    /\ pc = "serving"
    /\ req[s].at = "upload"
    /\ fault => hist.budget > 0
    /\ blob' = upload_blob(blob, req[s].payload, fault)
    /\ ev' = req[s].ev
    /\ IF fault
       THEN /\ df' = StoreAfterFault(req[s].before, df)
            /\ req' = [req EXCEPT ![s] = IdleReq]
            /\ out' = Raised(req[s].branch, "StorageError", 1)
            /\ hist' = [hist EXCEPT !.raised = TRUE, !.budget = @ - 1]
       ELSE /\ df' = df
            /\ req' = [req EXCEPT ![s].at = "chart", ![s].uploads = 1]
            /\ Continue(s)
    /\ UNCHANGED <<pc, curves, pandas, layout, table>>

\* Lines 127 and 131-165: update_chart() builds the reference traces and
\* reads df.empty.
ChartEmpty(s) ==
    /\ pc = "serving"
    /\ req[s].at = "chart"
    /\ req' = IF PlotsRecords(StoreForResponse(req[s].before, df))
              THEN [req EXCEPT ![s].at = "x"]
              ELSE [req EXCEPT ![s].at = "rows",
                               ![s].fig = ReferenceTraces(curves)]
    /\ ev' = req[s].ev
    /\ Continue(s)
    /\ UNCHANGED <<pc, df, blob, curves, pandas, layout, table>>

\* Line 167: x=df['Age_Days']
ChartX(s) ==
    /\ pc = "serving"
    /\ req[s].at = "x"
    /\ ev' = req[s].ev
    /\ LET d == StoreForResponse(req[s].before, df)
       IN  IF HasColumn(d, "Age_Days")
           THEN /\ req' = [req EXCEPT ![s].at = "y",
                                      ![s].x = Column(d, "Age_Days")]
                /\ Continue(s)
           ELSE Raise(s, "KeyError")
    /\ UNCHANGED <<pc, df, blob, curves, pandas, layout, table>>

\* Lines 168-173: y=df['Weight_kg'], and the trace is added.
ChartY(s) ==
    /\ pc = "serving"
    /\ req[s].at = "y"
    /\ ev' = req[s].ev
    /\ LET d == StoreForResponse(req[s].before, df)
       IN  IF HasColumn(d, "Weight_kg")
           THEN /\ req' = [req EXCEPT
                             ![s].at = "rows",
                             ![s].x = <<>>,
                             ![s].fig = ReferenceTraces(curves)
                                 \o <<GrowthTrace(req[s].x,
                                                  Column(d, "Weight_kg"))>>]
                /\ Continue(s)
           ELSE Raise(s, "KeyError")
    /\ UNCHANGED <<pc, df, blob, curves, pandas, layout, table>>

\* Line 128: return message, fig, df.to_dict('records'); the browser puts
\* the rows into the session's table.
Return(s) ==
    /\ pc = "serving"
    /\ req[s].at = "rows"
    /\ out' = Response(req[s].branch, Message(req[s].branch), req[s].fig,
                       to_dict_records(StoreForResponse(req[s].before, df)),
                       req[s].uploads)
    /\ ev' = req[s].ev
    /\ req' = [req EXCEPT ![s] = IdleReq]
    /\ table' = [table EXCEPT ![s] = JsonRows(out'.data)]
    /\ hist' = [hist EXCEPT !.acked =
                   IF req[s].branch = "add"
                   THEN @ \cup {new_record(req[s].ev.dob, req[s].ev.date,
                                           req[s].ev.weight).rows[1]}
                   ELSE @]
    /\ UNCHANGED <<pc, df, blob, curves, pandas, layout>>

\* The page is (re)loaded: the table holds the layout's rows and the callback
\* runs with no trigger.
InitialRender(s) ==
    update_data_and_chart(s, "render", "", layout,
                          DefaultDob, DefaultDate, <<>>)

\* The Add Record button.
AddRecord(s, form) ==
    /\ Len(df.rows) < MaxRecords
    /\ update_data_and_chart(s, "add", "add-button", table[s],
                             form[1], form[2], form[3])

\* The Save Changes button.
SaveChanges(s) ==
    update_data_and_chart(s, "save", "save-button", table[s],
                          DefaultDob, DefaultDate, <<>>)

\* The user deletes row i of the table: its data property changes.
DeleteRow(s, i) ==
    update_data_and_chart(s, "delete", "data-table", RemoveAt(table[s], i),
                          DefaultDob, DefaultDate, <<>>)

\* The user types another date into row i.
EditDate(s, i, d) ==
    /\ IsStr(table[s][i].Date) =>
          to_datetime(table[s][i].Date.text) # to_datetime(d)
    /\ update_data_and_chart(s, "edit", "data-table",
                             [table[s] EXCEPT ![i].Date = Str(d)],
                             DefaultDob, DefaultDate, <<>>)

Next ==
    \/ Load
    \/ \E s \in DOMAIN table : InitialRender(s)
    \/ \E s \in DOMAIN table, form \in AddInputs : AddRecord(s, form)
    \/ \E s \in DOMAIN table : SaveChanges(s)
    \/ \E s \in DOMAIN table : \E i \in 1..Len(table[s]) : DeleteRow(s, i)
    \/ \E s \in DOMAIN table :
          \E i \in 1..Len(table[s]), d \in EditDates : EditDate(s, i, d)
    \/ \E s \in DOMAIN table : Assign(s)
    \/ \E s \in DOMAIN table : ParseDate(s)
    \/ \E s \in DOMAIN table : SetItem(s)
    \/ \E s \in DOMAIN table : WriteCsv(s)
    \/ \E s \in DOMAIN table, fault \in BOOLEAN : Upload(s, fault)
    \/ \E s \in DOMAIN table : ChartEmpty(s)
    \/ \E s \in DOMAIN table : ChartX(s)
    \/ \E s \in DOMAIN table : ChartY(s)
    \/ \E s \in DOMAIN table : Return(s)

Spec == Init /\ [][Next]_vars

SpecShared == InitShared /\ [][Next]_vars

----------------------------------------------------------------------------
(* Vocabulary of the properties.  The day difference is counted here by    *)
(* walking the calendar a day at a time, independently of the ordinals the *)
(* model of the callback uses.                                             *)

NextDay(t) ==
    IF t[3] < DaysInMonth(t[1], t[2]) THEN <<t[1], t[2], t[3] + 1>>
    ELSE IF t[2] < 12 THEN <<t[1], t[2] + 1, 1>>
    ELSE <<t[1] + 1, 1, 1>>

DateLeq(a, b) ==
    \/ a[1] < b[1]
    \/ a[1] = b[1] /\ a[2] < b[2]
    \/ a[1] = b[1] /\ a[2] = b[2] /\ a[3] <= b[3]

RECURSIVE DaysFromTo(_, _)
DaysFromTo(a, b) == IF a = b THEN 0 ELSE 1 + DaysFromTo(NextDay(a), b)

\* The records a table's rows stand for: the Date read as a calendar date,
\* Age_Days and Weight_kg as given.
RowsOf(table_data) ==
    [i \in 1..Len(table_data) |->
        [Date      |-> [year  |-> table_data[i].Date.text[1],
                        month |-> table_data[i].Date.text[2],
                        day   |-> table_data[i].Date.text[3]],
         Age_Days  |-> table_data[i].Age_Days,
         Weight_kg |-> table_data[i].Weight_kg]]

\* The rows a table shows for the store's records.
ShownRows(d) ==
    [i \in 1..Len(d.rows) |->
        [Date      |-> IF "text" \in DOMAIN d.rows[i].Date
                       THEN d.rows[i].Date
                       ELSE [text |-> <<d.rows[i].Date.year,
                                        d.rows[i].Date.month,
                                        d.rows[i].Date.day, "T">>],
         Age_Days  |-> d.rows[i].Age_Days,
         Weight_kg |-> d.rows[i].Weight_kg]]

\* The step belongs to a call of the callback.
IsEvent == pc = "serving"

\* The step ends the call: it returns a response or raises.
Returns == IsEvent /\ out'.status # "pending"

\* The store as the call that takes the step found it when it began.
Before == req[ev'.session].before

\* No call is in progress.
Idle == \A s \in DOMAIN req : req[s].at = "idle"

CompleteAdd(e) ==
    e.trigger = "add-button" /\ e.dob # <<>> /\ e.date # <<>> /\ e.weight # <<>>

SaveTrigger(e) == e.trigger \in {"save-button", "data-table"}

\* The persisted CSV, read back as load() reads it.
Persisted == load(blob, pandas)

----------------------------------------------------------------------------
\* C1: an add event with date of birth, measurement date and weight all given
\* and the measurement on or after the birth leaves the store one record
\* longer than it found it; the new record is last, with the measurement
\* date, the given weight and the whole-day difference as Age_Days; the
\* earlier records keep their values and order; the message returned is the
\* add-success text.
C1_AddAppends ==
    [][ (Returns /\ CompleteAdd(ev') /\ DateLeq(ev'.dob, ev'.date)) =>
          /\ Len(df'.rows) = Len(Before.rows) + 1
          /\ SubSeq(df'.rows, 1, Len(Before.rows)) = Before.rows
          /\ df'.columns = Columns
          /\ LET new == df'.rows[Len(df'.rows)]
             IN  /\ new.Date = [year |-> ev'.date[1], month |-> ev'.date[2],
                                day |-> ev'.date[3]]
                 /\ new.Weight_kg = ev'.weight
                 /\ new.Age_Days = <<DaysFromTo(ev'.dob, ev'.date)>>
          /\ out'.status = "ok" => out'.message = MsgAdded
          /\ out'.status = "raised" => out'.exc = "StorageError"
      ]_vars

\* An add across the leap day completed on a non-empty store.
C1_Witness ==
    /\ ev.kind = "add" /\ out.status = "ok" /\ out.message = MsgAdded
    /\ Len(df.rows) = 2
    /\ df.rows[2].Age_Days = <<60>> /\ df.rows[2].Weight_kg = <<0>>

\* C2: an event that is neither save / table-edited nor an add with all three
\* inputs present changes neither the store nor the persisted CSV, issues no
\* write, and returns the "no changes" text.
C2_NoOpMutatesNothing ==
    [][ (IsEvent /\ ~SaveTrigger(ev') /\ ~CompleteAdd(ev')) =>
          /\ df' = df
          /\ blob' = blob
          /\ out'.uploads = 0
          /\ out'.status # "raised"
          /\ out'.status = "ok" =>
                out'.message = MsgNoChange /\ df' = Before
      ]_vars

\* Add was pressed without a weight on a non-empty store.
C2_Witness ==
    /\ ev.trigger = "add-button" /\ ev.weight = <<>> /\ ev.dob # <<>>
    /\ out.message = MsgNoChange
    /\ Len(df.rows) >= 1

\* C3: with the table holding the store's n >= 1 rows less one, a save or
\* table-edited event (the container not failing) completes with the
\* save-success text, and the store and the persisted CSV then hold exactly
\* the n - 1 remaining records, in order, under the three columns.
C3_DeleteShrinksByOne ==
    [][ (/\ Returns /\ SaveTrigger(ev')
         /\ Len(Before.rows) >= 1
         /\ \E i \in 1..Len(Before.rows) :
               ev'.table_data = RemoveAt(ShownRows(Before), i)
         /\ out'.exc # "StorageError") =>
          /\ out'.status = "ok"
          /\ out'.message = MsgSaved
          /\ \E i \in 1..Len(Before.rows) :
               /\ ev'.table_data = RemoveAt(ShownRows(Before), i)
               /\ df' = [columns |-> Columns,
                         rows |-> RemoveAt(Before.rows, i)]
          /\ load(blob', pandas) = df'
      ]_vars

\* C4: while every event so far has completed (none raised), the persisted
\* CSV read back by load() is the store: the same records in the same order;
\* a completed replace persists exactly the rows passed in; and a completed
\* add or replace has made its one full write of the store.
C4_PersistedEqualsStore ==
    /\ (pc = "serving" /\ Idle /\ ~hist.raised) =>
          /\ Persisted.rows = df.rows
          /\ Persisted.columns = df.columns
    /\ (out.status = "ok" /\ out.branch = "replace") =>
          /\ Persisted.rows = RowsOf(ev.table_data)
          /\ ShownRows(Persisted) = ShownRows([rows |-> RowsOf(ev.table_data)])
    /\ (out.status = "ok" /\ out.branch \in {"add", "replace"}) =>
          /\ out.uploads = 1
          /\ blob.kind = "text"
          /\ blob.header = <<"Date", "Age_Days", "Weight_kg">>
          /\ Len(blob.lines) = Len(df.rows)

\* A table with a retyped date was saved on pandas 2 and persisted.
C4_Witness ==
    /\ out.status = "ok" /\ out.branch = "replace" /\ ~hist.raised
    /\ ev.kind = "edit"
    /\ pandas = 2
    /\ Len(df.rows) = 1
    /\ df.rows[1].Date = [year |-> 2024, month |-> 3, day |-> 1]
    /\ Persisted.rows = df.rows

\* C5: every event takes exactly one of the branches add, replace, no-op, as
\* its trigger and inputs say, and the rows and the chart's record trace it
\* returns are those of the store as it is after the branch.
C5_ResponseFromCurrentStore ==
    /\ ev.kind # "none" =>
          /\ out.branch \in {"add", "replace", "noop"}
          /\ (out.branch = "add") <=> CompleteAdd(ev)
          /\ (out.branch = "replace") <=> (~CompleteAdd(ev) /\ SaveTrigger(ev))
    /\ out.status = "ok" =>
          /\ out.data = df.rows
          /\ JsonRows(out.data) = ShownRows(df)
          /\ table[ev.session] = ShownRows(df)
          /\ IF df.rows = <<>> THEN Len(out.fig) = 7
             ELSE /\ Len(out.fig) = 8
                  /\ out.fig[8].x = [i \in 1..Len(df.rows) |-> df.rows[i].Age_Days]
                  /\ out.fig[8].y = [i \in 1..Len(df.rows) |-> df.rows[i].Weight_kg]

\* A row was deleted from a two-row table and the response shows the one left.
C5_Witness ==
    /\ out.status = "ok" /\ out.branch = "replace" /\ ev.kind = "delete"
    /\ Len(out.data) = 1
    /\ hist.acked # {}

TraceNames(f) == [i \in 1..Len(f) |-> f[i].name]

\* C6: update_chart gives 7 traces on an empty store (two bands, then the
\* 5th, 10th, 50th, 90th and 95th percentile lines) and 8 on a non-empty one,
\* the 8th with one point per record in store order, x the record's Age_Days
\* and y its Weight_kg; the reference curves stay as loaded.
C6_ChartTraces ==
    pc = "serving" =>
        LET f == update_chart(df, curves)
            n == Len(df.rows)
        IN  /\ Len(f) = IF n = 0 THEN 7 ELSE 8
            /\ SubSeq(TraceNames(f), 1, 7) =
                  <<"", "", "5th Percentile", "10th Percentile",
                    "50th Percentile", "90th Percentile", "95th Percentile">>
            /\ f[1].kind = "band" /\ f[2].kind = "band"
            /\ \A i \in 3..7 : f[i].kind = "lines"
            /\ n > 0 =>
                  /\ f[8].name = "Baby's Growth"
                  /\ Len(f[8].x) = n /\ Len(f[8].y) = n
                  /\ \A i \in 1..n : /\ f[8].x[i] = df.rows[i].Age_Days
                                     /\ f[8].y[i] = df.rows[i].Weight_kg
            /\ out.status = "ok" => out.fig = f
            /\ \A s \in DOMAIN req : req[s].at = "rows" => req[s].fig = f
            /\ curves = [days |-> days, percentiles |-> percentiles]

\* The chart of a two-record store was returned, and of an empty one before.
C6_Witness ==
    /\ out.status = "ok" /\ Len(out.fig) = 8
    /\ Len(df.rows) = 2
    /\ out.fig[8].x = << <<14>>, <<60>> >>
    /\ out.fig[8].y = << <<42>>, <<0>> >>

\* C7: a save or table-edited event whose table holds the store's own rows
\* (the empty store included, the container not failing) completes with the
\* save-success text and leaves the records, their number and their order as
\* they were, in the store and in the persisted CSV.
C7_SaveOwnRowsIsIdempotent ==
    [][ (/\ Returns /\ SaveTrigger(ev')
         /\ ev'.table_data = ShownRows(Before)
         /\ out'.exc # "StorageError") =>
          /\ out'.status = "ok"
          /\ out'.message = MsgSaved
          /\ df'.rows = Before.rows
          /\ load(blob', pandas).rows = Before.rows
      ]_vars

\* The blob cannot be loaded: it is missing, or empty, or has no Date column,
\* or holds a date that is none.
Unloadable(b) ==
    \/ b.kind = "missing"
    \/ ~Contains(b.header, "Date")
    \/ \E i \in 1..Len(b.lines) :
          LET t == b.lines[i][1]
          IN  ~(t[2] \in 1..12 /\ t[3] \in 1..DaysInMonth(t[1], t[2]))

\* C8: when the growth-record blob cannot be read or parsed at start-up, the
\* load leaves the process serving with an empty store under the columns
\* Date, Age_Days, Weight_kg, writes nothing, and the first event finds the
\* store empty.
C8_LoadFailureGivesEmptyStore ==
    /\ [][ pc = "start" =>
             /\ pc' = "serving"
             /\ blob' = blob
             /\ Unloadable(blob) =>
                   /\ df' = [columns |-> <<"Date", "Age_Days", "Weight_kg">>,
                             rows |-> <<>>]
                   /\ \A s \in DOMAIN table : table'[s] = <<>>
         ]_vars
    /\ [][ (IsEvent /\ ev.kind = "none" /\ Unloadable(blob)) =>
             /\ df = [columns |-> <<"Date", "Age_Days", "Weight_kg">>,
                      rows |-> <<>>]
             /\ req'[ev'.session].before = df
         ]_vars

\* The load of a missing blob has ended: the process serves an empty store,
\* the blob is still missing, and no event has been handled yet.
C8_Witness ==
    /\ pc = "serving" /\ ev.kind = "none"
    /\ blob.kind = "missing"
    /\ df.rows = <<>> /\ df.columns = Columns

\* What a storage fault during an add or a save leaves: the exception and no
\* response, one write attempted, the blob as it was, the store mutated.
FaultLeavesMutation ==
    /\ out'.status = "raised"
    /\ out'.message = "" /\ out'.fig = <<>> /\ out'.data = <<>>
    /\ out'.uploads = 1
    /\ blob' = blob
    /\ df' = df
    /\ req'[ev'.session].at = "idle"
    /\ CompleteAdd(ev') =>
          /\ Len(df'.rows) = Len(Before.rows) + 1
          /\ SubSeq(df'.rows, 1, Len(Before.rows)) = Before.rows
          /\ df'.rows[Len(df'.rows)].Weight_kg = ev'.weight
    /\ ~CompleteAdd(ev') =>
          /\ SaveTrigger(ev')
          /\ df'.rows = RowsOf(ev'.table_data)

\* C9 as stated: after a storage fault the fault propagates, the write is not
\* retried, the mutation stays, and the store and the persisted copy disagree.
C9_FaultAlwaysDisagrees ==
    [][ (IsEvent /\ out'.exc = "StorageError") =>
          /\ FaultLeavesMutation
          /\ load(blob', pandas) # df'
      ]_vars

\* C9, amended: after a storage fault the fault propagates, the write is not
\* retried and the mutation stays; the store and the persisted copy disagree
\* exactly when the mutated store differs from the previous snapshot, as it
\* does after an add to a store that was in step with it.
C9_FaultKeepsMutation ==
    [][ (IsEvent /\ out'.exc = "StorageError") =>
          /\ FaultLeavesMutation
          /\ (load(blob', pandas) # df') <=> (df' # load(blob, pandas))
          /\ (CompleteAdd(ev') /\ load(blob, pandas) = Before) =>
                load(blob', pandas) # df'
      ]_vars

\* An add raised on the write: the store is a record ahead of the CSV.
C9_Witness ==
    /\ out.exc = "StorageError" /\ ev.kind = "add"
    /\ Len(df.rows) = Len(Persisted.rows) + 1
    /\ Persisted # df

\* C10: nothing guards the shared store against the other session.  A save
\* or table-edited event assigns the caller's table rows to the store
\* whatever it holds, and stores its parsed dates into whatever frame the
\* store is by then; an add assigns the frame it built from the store it
\* read, whatever the store holds by then; an upload overwrites the whole
\* persisted CSV.  So a record whose add was acknowledged can vanish from
\* both with no delete requested.
C10_SaveReplacesWholesale ==
    [][ IsEvent =>
          /\ (req[ev'.session].at = "idle" /\ SaveTrigger(ev')
                  /\ ~CompleteAdd(ev')) =>
                /\ df'.rows = ev'.table_data
                /\ Len(df'.rows) = Len(ev'.table_data)
          /\ req[ev'.session].at = "assign" =>
                /\ Len(df'.rows) = Len(Before.rows) + 1
                /\ \A i \in 1..Len(Before.rows) :
                      df'.rows[i].Date = Before.rows[i].Date
          /\ req[ev'.session].at = "setitem" =>
                \A i \in 1..Len(df'.rows) :
                    i <= Len(req[ev'.session].col) =>
                        df'.rows[i].Date = req[ev'.session].col[i]
          /\ (req[ev'.session].at = "upload" /\ out'.status # "raised") =>
                /\ blob' = req[ev'.session].payload
                /\ blob'.kind = "text"
      ]_vars

\* A record whose add returned the success text is in neither the store nor
\* the persisted CSV; no call is in progress, none raised, and no session
\* deleted or edited a row.
C10_Witness ==
    /\ pc = "serving" /\ Idle
    /\ ~hist.edited /\ ~hist.raised
    /\ \E r \in hist.acked :
          ~Contains(df.rows, r) /\ ~Contains(Persisted.rows, r)

====
